---------------------------- MODULE Spec2Model ----------------------------
(***************************************************************************)
(* A model of mariusor/wrapper: the signal supervisor of wrapper.go        *)
(* (RegisterSignalHandlers, Exec, wait, exec) and the listener lifecycle   *)
(* of http_server.go (HttpServer and its steps, initServer, start, stop).   *)
(*                                                                         *)
(* Error values are modelled by their unwrap chain, outermost first: nil   *)
(* is the empty chain, fmt.Errorf("...%w", e) puts one element in front of *)
(* e's chain, and errors.Is(e, t) looks for t anywhere in the chain.  An   *)
(* element is a pair: the message and the value formatted into it.         *)
(***************************************************************************)
EXTENDS Integers, Sequences, FiniteSets, TLC

(***************************************************************************)
(* Bounds of the model.                                                    *)
(***************************************************************************)
\* how many signals the environment sends to the process in one run
MaxSignals == 2
\* how many listeners a built server may hold
MaxListeners == 2

(***************************************************************************)
(* Error values.                                                           *)
(***************************************************************************)
Nil == <<>>

\* a plain error value (errors.New(msg), a sentinel)
Err(msg) == << <<msg, "">> >>

\* fmt.Errorf("msg arg: %w", e)
Wrap(msg, arg, e) == << <<msg, arg>> >> \o e

\* var Interrupt = syscall.EINTR
Interrupt == Err("EINTR")

\* an error that wraps Interrupt
WrappedInterrupt == Wrap("wrapped", "", Interrupt)

\* ctx.Err() of a cancelled context
Canceled == Err("context canceled")

\* errors.Is(err, target) for a target that is a plain sentinel
ErrorsIs(err, target) == \E n \in 1..Len(err) : err[n] = target[1]

\* the values a handler of the model may write to its sink
HandlerErrs == {Nil, Err("E1"), Interrupt, WrappedInterrupt}

\* the values the workload of the model may return by itself
FnErrs == {Nil, Err("E2")}

(***************************************************************************)
(* The signals of the model.  A handler body is the sequence of values it  *)
(* writes to its sink: none, or one.                                       *)
(***************************************************************************)
Sigs == {"SIGHUP", "SIGTERM"}

HandlerBodies == {<<>>} \cup {<<v>> : v \in HandlerErrs}

\* SignalHandlers: a map from some signals to handler bodies
SignalHandlers == UNION {[D -> HandlerBodies] : D \in SUBSET Sigs}

VARIABLES
    built,        \* how the router was made: "Register" or "Literal" (as the test does)
    h,            \* ww.h, the handler map
    fnNil,        \* whether the workload passed to Exec is nil
    subscribed,   \* the signals relayed to ww.signal by os/signal
    parentDone,   \* the caller's context is cancelled
    cancelCalled, \* cancelFn of the derived context has run
    execPc,       \* position of Exec
    result,       \* the value Exec returns
    errq,         \* buffer of ww.err
    waitPc,       \* position of the wait goroutine
    waitSig,      \* the signal wait has received and not yet dispatched
    waitErr,      \* the value wait is sending on ww.err
    sink,         \* buffer of errCh, the sink handed to handlers
    sinkClosed,   \* errCh is closed
    fnPc,         \* position of the exec goroutine
    fnVal,        \* the value fn returned
    tasks,        \* per signal, the handler goroutines started and not finished
    panicked,     \* a goroutine panicked: the process is gone
    \* history
    killed,       \* number of signals sent to the process
    sendLog,      \* the sends completed on ww.err, in order: <<source, value>>
    recvCount,    \* number of values Exec received from ww.err
    written,      \* the values handlers put in the sink, in order
    taken,        \* the values wait received from the sink, in order
    started,      \* per signal, number of handler goroutines started
    lostRunning,  \* registered signals dropped while the workload was running
    lateRecv,     \* the loop took a registered signal after Exec had its outcome
    lateStart,    \* the handler goroutine of such a signal was started
    quietReturn,  \* the workload returned before any signal was sent
    \* the server of http_server.go
    cl,           \* cc.l, the listeners (by address)
    cert,         \* cc.cert
    key,          \* cc.key
    gWait,        \* cc.gWait
    startPc,      \* position of start
    serve,        \* per listener, the position of its serve goroutine
    mode,         \* per listener, how it is served: "tls" or "plain"
    errChan,      \* buffer of start's errChan
    i,            \* start's loop counter
    errs,         \* start's errs
    startResult,  \* the error start returns: the joined errors (none: nil)
    stopPc,       \* position of stop
    stopCtxDone,  \* the context passed to stop is cancelled or expired
    inShutdown,   \* cc.s is shutting down: its listeners are closed
    stopResult,   \* the error stop returns
    report,       \* history: per listener, what Serve or ServeTLS returned
    open,         \* the listeners (by address) that are bound and not closed
    lnerr,        \* the error Shutdown got from closing the listeners
    closeFailed,  \* history: the listeners whose Close returned an error
    woke,         \* history: what ended stop's grace wait: "timer" or "ctx"
    \* HttpServer, the builder of http_server.go
    setters,      \* the configuration steps passed to HttpServer
    applied,      \* history: what the steps called so far returned, in order
    buildPc,      \* position of HttpServer: "none", "steps", "ok" or "failed"
    buildErr,     \* the error of the last step called; of a failed build
    ch            \* c.h is set

wvars == <<built, h, fnNil, subscribed, parentDone, cancelCalled, execPc, result,
           errq, waitPc, waitSig, waitErr, sink, sinkClosed, fnPc, fnVal, tasks,
           panicked, killed, sendLog, recvCount, written, taken, started,
           lostRunning, lateRecv, lateStart, quietReturn>>

bvars == <<setters, applied, buildPc, buildErr, ch>>

svars == <<cl, cert, key, gWait, startPc, serve, mode, errChan, i, errs,
           startResult, stopPc, stopCtxDone, inShutdown, stopResult, report,
           open, lnerr, closeFailed, woke, bvars>>

vars == <<wvars, svars>>

(***************************************************************************)
(* RegisterSignalHandlers (wrapper.go:40-48) and the literal of the test.  *)
(***************************************************************************)
\* signals(handlers): the keys of the map
signals(handlers) == DOMAIN handlers

\* signal.Notify(c, sig...): with no signal given, every signal is relayed
Notify(sigs) == IF sigs = {} THEN Sigs ELSE sigs

\* mutant: ww.err made without a buffer
UnbufferedErrCap == Len(<<>>)

\* err: make(chan error, 1)
RegisterErrCap == 1

\* capacity of ww.err: RegisterSignalHandlers makes it 1, the test's literal 0
ErrCap == IF built = "Register" THEN RegisterErrCap ELSE 0

\* errCh := make(chan error, 1)
SinkCap == 1

ctxDone == parentDone \/ cancelCalled

\* no server has been built
ServerIdle ==
    /\ cl = <<>>
    /\ cert = ""
    /\ key = ""
    /\ gWait = 0
    /\ startPc = "idle"
    /\ serve = <<>>
    /\ mode = <<>>
    /\ errChan = <<>>
    /\ i = 0
    /\ errs = <<>>
    /\ startResult = <<>>
    /\ stopPc = "idle"
    /\ stopCtxDone = FALSE
    /\ inShutdown = FALSE
    /\ stopResult = Nil
    /\ report = <<>>
    /\ open = {}
    /\ lnerr = Nil
    /\ closeFailed = {}
    /\ woke = "none"
    /\ setters = <<>>
    /\ applied = <<>>
    /\ buildPc = "none"
    /\ buildErr = Nil
    /\ ch = FALSE

Init ==
    /\ ServerIdle
    /\ built \in {"Register", "Literal"}
    /\ h \in SignalHandlers
    /\ fnNil \in BOOLEAN
    /\ subscribed = IF built = "Register" THEN Notify(signals(h)) ELSE {}
    /\ parentDone = FALSE
    /\ cancelCalled = FALSE
    /\ execPc = "start"
    /\ result = Nil
    /\ errq = <<>>
    /\ waitPc = "none"
    /\ waitSig = "none"
    /\ waitErr = Nil
    /\ sink = <<>>
    /\ sinkClosed = FALSE
    /\ fnPc = "none"
    /\ fnVal = Nil
    /\ tasks = [s \in Sigs |-> 0]
    /\ panicked = FALSE
    /\ killed = 0
    /\ sendLog = <<>>
    /\ recvCount = 0
    /\ written = <<>>
    /\ taken = <<>>
    /\ started = [s \in Sigs |-> 0]
    /\ lostRunning = 0
    /\ lateRecv = FALSE
    /\ lateStart = FALSE
    /\ quietReturn = FALSE

(***************************************************************************)
(* Channel operations on ww.err.  A send completes when the buffer has     *)
(* room, or, on an unbuffered channel, when Exec is waiting at its         *)
(* receive; otherwise the sender stays blocked.                            *)
(***************************************************************************)
CanSendErr == Len(errq) < ErrCap \/ (execPc = "recv" /\ errq = <<>>)

SendErr(src, v) ==
    /\ CanSendErr
    /\ sendLog' = Append(sendLog, <<src, v>>)
    /\ IF Len(errq) < ErrCap
       THEN /\ errq' = Append(errq, v)
            /\ UNCHANGED <<execPc, result, recvCount>>
       ELSE /\ result' = v
            /\ recvCount' = recvCount + 1
            /\ execPc' = "cleanup"
            /\ UNCHANGED errq

config == <<built, h, fnNil>>
wloop == <<waitPc, waitSig, waitErr>>
hist == <<killed, written, taken, started, lostRunning, lateRecv, lateStart,
          quietReturn>>

(***************************************************************************)
(* w.Exec,    wrapper.go:82-109                                            *)
(***************************************************************************)
\* mutant: Exec without the check of lines 96-98, a nil workload is started
\* like any other
ExecStartNoNilCheck ==
    /\ ~panicked
    /\ UNCHANGED svars
    /\ execPc = "start"
    /\ waitPc' = "spawned"
    /\ fnPc' = "spawned"
    /\ execPc' = "recv"
    /\ UNCHANGED <<config, subscribed, parentDone, cancelCalled, result, errq,
                   waitSig, waitErr, sink, sinkClosed, fnVal, tasks, panicked,
                   hist, sendLog, recvCount>>

\* lines 83-104: a nil workload returns nil at once (the deferred cleanup is
\* still to run); otherwise the two goroutines are started
ExecStart ==
    /\ ~panicked
    /\ UNCHANGED svars
    /\ execPc = "start"
    /\ IF fnNil
       THEN /\ execPc' = "cleanup"
            /\ result' = Nil
            /\ UNCHANGED <<waitPc, fnPc>>
       ELSE /\ waitPc' = "spawned"
            /\ fnPc' = "spawned"
            /\ execPc' = "recv"
            /\ UNCHANGED result
    /\ UNCHANGED <<config, subscribed, parentDone, cancelCalled, errq, waitSig,
                   waitErr, sink, sinkClosed, fnVal, tasks, panicked, hist,
                   sendLog, recvCount>>

\* mutant: Exec drains ww.err, receiving a second value when one arrives
ExecRecvTwice ==
    /\ ~panicked
    /\ UNCHANGED svars
    /\ execPc = "recv"
    /\ errq # <<>>
    /\ result' = Head(errq)
    /\ errq' = Tail(errq)
    /\ recvCount' = recvCount + 1
    /\ execPc' = IF recvCount = 0 THEN "recv" ELSE "cleanup"
    /\ UNCHANGED <<config, subscribed, parentDone, cancelCalled, wloop, sink,
                   sinkClosed, fnPc, fnVal, tasks, panicked, hist, sendLog>>

\* line 108: return <-ww.err
ExecRecv ==
    /\ ~panicked
    /\ UNCHANGED svars
    /\ execPc = "recv"
    /\ errq # <<>>
    /\ result' = Head(errq)
    /\ errq' = Tail(errq)
    /\ recvCount' = recvCount + 1
    /\ execPc' = "cleanup"
    /\ UNCHANGED <<config, subscribed, parentDone, cancelCalled, wloop, sink,
                   sinkClosed, fnPc, fnVal, tasks, panicked, hist, sendLog>>

\* mutant: the deferred function forgets signal.Stop
ExecCleanupNoStop ==
    /\ ~panicked
    /\ UNCHANGED svars
    /\ execPc = "cleanup"
    /\ cancelCalled' = TRUE
    /\ execPc' = "returned"
    /\ UNCHANGED <<config, subscribed, parentDone, result, errq, wloop, sink,
                   sinkClosed, fnPc, fnVal, tasks, panicked, hist, sendLog,
                   recvCount>>

\* lines 90-94, the deferred function: cancelFn(), signal.Stop(ww.signal)
ExecCleanup ==
    /\ ~panicked
    /\ UNCHANGED svars
    /\ execPc = "cleanup"
    /\ cancelCalled' = TRUE
    /\ subscribed' = {}
    /\ execPc' = "returned"
    /\ UNCHANGED <<config, parentDone, result, errq, wloop, sink, sinkClosed,
                   fnPc, fnVal, tasks, panicked, hist, sendLog, recvCount>>

(***************************************************************************)
(* w.wait,    wrapper.go:50-73                                             *)
(***************************************************************************)
\* line 51: the goroutine starts running and makes errCh
waitStart ==
    /\ ~panicked
    /\ UNCHANGED svars
    /\ waitPc = "spawned"
    /\ waitPc' = "select"
    /\ UNCHANGED <<config, subscribed, parentDone, cancelCalled, execPc, result,
                   errq, waitSig, waitErr, sink, sinkClosed, fnPc, fnVal, tasks,
                   panicked, hist, sendLog, recvCount>>

\* lines 55-57: case <-ctx.Done(): return, and the deferred close(errCh)
waitCtxDone ==
    /\ ~panicked
    /\ UNCHANGED svars
    /\ waitPc = "select"
    /\ ctxDone
    /\ waitPc' = "done"
    /\ sinkClosed' = TRUE
    /\ UNCHANGED <<config, subscribed, parentDone, cancelCalled, execPc, result,
                   errq, waitSig, waitErr, sink, fnPc, fnVal, tasks, panicked,
                   hist, sendLog, recvCount>>

\* mutant: the loop forwards every error as it is
ConvertNothing(err) == err

\* mutant: only Interrupt itself becomes nil, an error wrapping it does not
ConvertEqualOnly(err) == IF err = Interrupt THEN Nil ELSE err

\* lines 60-62: an error that is, or wraps, Interrupt becomes nil
Convert(err) == IF ErrorsIs(err, Interrupt) THEN Nil ELSE err

\* lines 58-65: case err := <-errCh: a nil value is dropped and the loop goes on
waitRecvErr ==
    /\ ~panicked
    /\ UNCHANGED svars
    /\ waitPc = "select"
    /\ sink # <<>>
    /\ sink' = Tail(sink)
    /\ taken' = Append(taken, Head(sink))
    /\ IF Head(sink) # Nil
       THEN /\ waitErr' = Convert(Head(sink))
            /\ waitPc' = "send"
       ELSE UNCHANGED <<waitErr, waitPc>>
    /\ UNCHANGED <<config, subscribed, parentDone, cancelCalled, execPc, result,
                   errq, waitSig, sinkClosed, fnPc, fnVal, tasks, panicked,
                   killed, written, started, lostRunning, lateRecv, lateStart,
                   quietReturn, sendLog, recvCount>>

\* lines 63-64: ww.err <- err; return, and the deferred close(errCh)
waitSend ==
    /\ ~panicked
    /\ UNCHANGED svars
    /\ waitPc = "send"
    /\ SendErr("wait", waitErr)
    /\ waitPc' = "done"
    /\ sinkClosed' = TRUE
    /\ UNCHANGED <<config, subscribed, parentDone, cancelCalled, waitSig, waitErr,
                   sink, fnPc, fnVal, tasks, panicked, hist>>

\* the loop is parked in its select with no case ready
Parked == waitPc = "select" /\ ~ctxDone /\ sink = <<>>

\* the relayed signal s is taken by the loop at line 66
Receives(s) == s \in subscribed /\ Parked

\* A signal is sent to the process.  os/signal relays a subscribed signal
\* with a send that does not block: ww.signal is unbuffered (line 42), so
\* the signal reaches line 66 only if the loop is parked in its select, and
\* is dropped otherwise.  A signal that is not subscribed never reaches the
\* router.
Kill(s) ==
    /\ ~panicked
    /\ UNCHANGED svars
    /\ killed < MaxSignals
    /\ killed' = killed + 1
    /\ IF Receives(s)
       THEN /\ waitPc' = "dispatch"
            /\ waitSig' = s
            /\ lateRecv' = (lateRecv \/ (s \in DOMAIN h /\ recvCount > 0))
            /\ UNCHANGED lostRunning
       ELSE /\ lostRunning' = IF s \in subscribed /\ s \in DOMAIN h
                                 /\ fnPc = "running" /\ recvCount = 0
                              THEN lostRunning + 1 ELSE lostRunning
            /\ UNCHANGED <<waitPc, waitSig, lateRecv>>
    /\ UNCHANGED <<config, subscribed, parentDone, cancelCalled, execPc, result,
                   errq, waitErr, sink, sinkClosed, fnPc, fnVal, tasks, panicked,
                   written, taken, started, lateStart, quietReturn, sendLog,
                   recvCount>>

\* mutant: the handler is called in the loop (handler(errCh) without go),
\* which stays in the call until the handler returns
waitGoHandlerInline ==
    /\ ~panicked
    /\ UNCHANGED svars
    /\ waitPc = "dispatch"
    /\ IF waitSig \in DOMAIN h
       THEN /\ tasks' = [tasks EXCEPT ![waitSig] = @ + 1]
            /\ started' = [started EXCEPT ![waitSig] = @ + 1]
            /\ lateStart' = (lateStart \/ lateRecv)
            /\ waitPc' = "inline"
       ELSE /\ waitPc' = "select"
            /\ UNCHANGED <<tasks, started, lateStart>>
    /\ waitSig' = "none"
    /\ UNCHANGED <<config, subscribed, parentDone, cancelCalled, execPc, result,
                   errq, waitErr, sink, sinkClosed, fnPc, fnVal, panicked, killed,
                   written, taken, lostRunning, lateRecv, quietReturn, sendLog,
                   recvCount>>

\* lines 67-70: if handler, ok := ww.h[sig]; ok { go handler(errCh) }
waitGoHandler ==
    /\ ~panicked
    /\ UNCHANGED svars
    /\ waitPc = "dispatch"
    /\ IF waitSig \in DOMAIN h
       THEN /\ tasks' = [tasks EXCEPT ![waitSig] = @ + 1]
            /\ started' = [started EXCEPT ![waitSig] = @ + 1]
            /\ lateStart' = (lateStart \/ lateRecv)
       ELSE UNCHANGED <<tasks, started, lateStart>>
    /\ waitPc' = "select"
    /\ waitSig' = "none"
    /\ UNCHANGED <<config, subscribed, parentDone, cancelCalled, execPc, result,
                   errq, waitErr, sink, sinkClosed, fnPc, fnVal, panicked, killed,
                   written, taken, lostRunning, lateRecv, quietReturn, sendLog,
                   recvCount>>

(***************************************************************************)
(* A handler goroutine: it runs (or sleeps), then writes what its body     *)
(* says to the sink and ends.  A send on the closed sink panics; a send    *)
(* on the full sink blocks.                                                *)
(***************************************************************************)
handler(s) ==
    /\ ~panicked
    /\ UNCHANGED svars
    /\ tasks[s] > 0
    /\ IF h[s] = <<>>
       THEN /\ tasks' = [tasks EXCEPT ![s] = @ - 1]
            /\ UNCHANGED <<sink, written, panicked>>
       ELSE IF sinkClosed
       THEN /\ panicked' = TRUE
            /\ UNCHANGED <<sink, written, tasks>>
       ELSE /\ Len(sink) < SinkCap
            /\ sink' = Append(sink, h[s][1])
            /\ written' = Append(written, h[s][1])
            /\ tasks' = [tasks EXCEPT ![s] = @ - 1]
            /\ UNCHANGED panicked
    /\ UNCHANGED <<config, subscribed, parentDone, cancelCalled, execPc, result,
                   errq, wloop, sinkClosed, fnPc, fnVal, killed, taken, started,
                   lostRunning, lateRecv, lateStart, quietReturn, sendLog,
                   recvCount>>

(***************************************************************************)
(* w.exec,    wrapper.go:75-77, and the workload fn                        *)
(***************************************************************************)
\* the goroutine starts running and calls fn(ctx)
execStart ==
    /\ ~panicked
    /\ UNCHANGED svars
    /\ fnPc = "spawned"
    /\ fnPc' = "running"
    /\ UNCHANGED <<config, subscribed, parentDone, cancelCalled, execPc, result,
                   errq, wloop, sink, sinkClosed, fnVal, tasks, panicked, hist,
                   sendLog, recvCount>>

\* fn returns: by itself with one of its own results, or with ctx.Err()
\* once it has seen its context cancelled
fnReturn(r) ==
    /\ ~panicked
    /\ UNCHANGED svars
    /\ fnPc = "running"
    /\ r = Canceled => ctxDone
    /\ fnVal' = r
    /\ fnPc' = "send"
    /\ quietReturn' = (killed = 0)
    /\ UNCHANGED <<config, subscribed, parentDone, cancelCalled, execPc, result,
                   errq, wloop, sink, sinkClosed, tasks, panicked, killed, written,
                   taken, started, lostRunning, lateRecv, lateStart, sendLog,
                   recvCount>>

\* line 76: ww.err <- fn(ctx)
execSend ==
    /\ ~panicked
    /\ UNCHANGED svars
    /\ fnPc = "send"
    /\ SendErr("exec", fnVal)
    /\ fnPc' = "done"
    /\ UNCHANGED <<config, subscribed, parentDone, cancelCalled, wloop, sink,
                   sinkClosed, fnVal, tasks, panicked, hist>>

\* the caller cancels the context it passed to Exec (or its deadline passes)
ParentCancel ==
    /\ ~panicked
    /\ UNCHANGED svars
    /\ ~ctxDone
    /\ parentDone' = TRUE
    /\ UNCHANGED <<config, subscribed, cancelCalled, execPc, result, errq, wloop,
                   sink, sinkClosed, fnPc, fnVal, tasks, panicked, hist, sendLog,
                   recvCount>>

Next ==
    \/ ExecStart
    \/ ExecRecv
    \/ ExecCleanup
    \/ waitStart
    \/ waitCtxDone
    \/ waitRecvErr
    \/ waitSend
    \/ waitGoHandler
    \/ \E s \in Sigs : Kill(s)
    \/ \E s \in DOMAIN h : handler(s)
    \/ execStart
    \/ \E r \in FnErrs \cup {Canceled} : fnReturn(r)
    \/ execSend
    \/ ParentCancel

Spec == Init /\ [][Next]_vars

(***************************************************************************)
(* The server of http_server.go, as HttpServer hands it out: start and     *)
(* stop of a configuration with at least one listener.                     *)
(***************************************************************************)
\* http.ErrServerClosed
ErrServerClosed == Err("http: Server closed")

\* what Serve and ServeTLS may return besides ErrServerClosed: a failed
\* accept, and for ServeTLS a certificate or key that does not load
AcceptFailed == Err("accept failed")
BadCertificate == Err("tls: failed to load key pair")

\* what Shutdown may return besides nil and ctx.Err(): a failed Close
CloseFailed == Err("close failed")
DeadlineExceeded == Err("context deadline exceeded")

\* the addresses of the listeners of the model
Addrs == <<":http", "/run/app.sock", "fd:3", "fd:4">>

\* len(s) of a string, of which only "is it empty" is used
StrLen(s) == IF s = "" THEN 0 ELSE 1

\* line 171: len(c.cert)+len(c.key) > 0
UsesTLS == StrLen(cert) + StrLen(key) > 0

\* lines 164-169: errFn of initServer
errFn(l, err) == IF err = Nil THEN Nil ELSE Wrap("error on listener", l, err)

\* mutant: the report is compared with == and not unwrapped
BenignEqualOnly(err) == err = ErrServerClosed

\* line 199: errors.Is(err, http.ErrServerClosed)
Benign(err) == ErrorsIs(err, ErrServerClosed)

\* errors.Join(errs...): nil values are left out, and nil is returned when
\* nothing is left; the joined error is modelled by the list of its members
Join(es) == SelectSeq(es, LAMBDA e : e # Nil)

\* the wrapper is not in use
WrapperIdle ==
    /\ built = "Register"
    /\ h = <<>>
    /\ fnNil = TRUE
    /\ subscribed = {}
    /\ parentDone = FALSE
    /\ cancelCalled = FALSE
    /\ execPc = "start"
    /\ result = Nil
    /\ errq = <<>>
    /\ waitPc = "none"
    /\ waitSig = "none"
    /\ waitErr = Nil
    /\ sink = <<>>
    /\ sinkClosed = FALSE
    /\ fnPc = "none"
    /\ fnVal = Nil
    /\ tasks = [s \in Sigs |-> 0]
    /\ panicked = FALSE
    /\ killed = 0
    /\ sendLog = <<>>
    /\ recvCount = 0
    /\ written = <<>>
    /\ taken = <<>>
    /\ started = [s \in Sigs |-> 0]
    /\ lostRunning = 0
    /\ lateRecv = FALSE
    /\ lateStart = FALSE
    /\ quietReturn = FALSE

\* the state HttpServer leaves when every step succeeded: one to
\* MaxListeners listeners, all bound, cert and key both set or both empty,
\* and a handler
ServerInit ==
    /\ WrapperIdle
    /\ cl \in {SubSeq(Addrs, 1, n) : n \in 1..MaxListeners}
    /\ \E ck \in {<<"", "">>, <<"cert.pem", "key.pem">>} :
          cert = ck[1] /\ key = ck[2]
    /\ gWait \in {0, 1}
    /\ startPc = "idle"
    /\ serve = [k \in 1..Len(cl) |-> "none"]
    /\ mode = [k \in 1..Len(cl) |-> "none"]
    /\ errChan = <<>>
    /\ i = 0
    /\ errs = <<>>
    /\ startResult = <<>>
    /\ stopPc = "idle"
    /\ stopCtxDone = FALSE
    /\ inShutdown = FALSE
    /\ stopResult = Nil
    /\ report = [k \in 1..Len(cl) |-> Nil]
    /\ open = {cl[k] : k \in 1..Len(cl)}
    /\ lnerr = Nil
    /\ closeFailed = {}
    /\ woke = "none"
    /\ setters = <<>>
    /\ applied = <<>>
    /\ buildPc = "ok"
    /\ buildErr = Nil
    /\ ch = TRUE

sconfig == <<cl, cert, key, gWait, bvars>>
sstop == <<stopPc, stopCtxDone, inShutdown, stopResult, lnerr, closeFailed, woke>>

(***************************************************************************)
(* start, http_server.go:188-206, with initServer, 158-178                 *)
(***************************************************************************)
\* mutant: only the goroutine of the first listener looks at cert and key
startBeginTLSFirstOnly ==
    /\ buildPc = "ok"
    /\ startPc = "idle"
    /\ errChan' = <<>>
    /\ serve' = [k \in 1..Len(cl) |-> "spawned"]
    /\ mode' = [k \in 1..Len(cl) |->
                   IF UsesTLS /\ k = 1 THEN "tls" ELSE "plain"]
    /\ errs' = <<>>
    /\ i' = 0
    /\ startPc' = "loop"
    /\ UNCHANGED <<wvars, sconfig, startResult, sstop, report, open>>

\* lines 189-195: errChan is made with room for len(cc.l) values and
\* initServer starts one goroutine per listener
startBegin ==
    /\ buildPc = "ok"
    /\ startPc = "idle"
    /\ errChan' = <<>>
    /\ serve' = [k \in 1..Len(cl) |-> "spawned"]
    /\ mode' = [k \in 1..Len(cl) |-> IF UsesTLS THEN "tls" ELSE "plain"]
    /\ errs' = <<>>
    /\ i' = 0
    /\ startPc' = "loop"
    /\ UNCHANGED <<wvars, sconfig, startResult, sstop, report, open>>

\* lines 171-175: the goroutine of listener k is in Serve (for ServeTLS,
\* the certificate and the key are loaded): the server has the listener in
\* its set, which it does not take once it is shutting down
serveTrack(k) ==
    /\ serve[k] = "spawned"
    /\ ~inShutdown
    /\ serve' = [serve EXCEPT ![k] = "serving"]
    /\ UNCHANGED <<wvars, sconfig, startPc, mode, errChan, i, errs, startResult,
                   sstop, report, open>>

\* mutant: a Serve that is entered when the server is already shutting down
\* does not return: it waits on its listener, which Shutdown did not close
serveReturnTrackedOnly(k, r) ==
    /\ serve[k] \in {"spawned", "serving"}
    /\ r = ErrServerClosed => (inShutdown /\ serve[k] = "serving")
    /\ r = AcceptFailed => (serve[k] = "serving" /\ ~inShutdown)
    /\ r = BadCertificate => (serve[k] = "spawned" /\ mode[k] = "tls")
    /\ Len(errChan) < Len(cl)
    /\ errChan' = Append(errChan, errFn(cl[k], r))
    /\ serve' = [serve EXCEPT ![k] = "reported"]
    /\ report' = [report EXCEPT ![k] = r]
    /\ open' = IF r = BadCertificate THEN open ELSE open \ {cl[k]}
    /\ UNCHANGED <<wvars, sconfig, startPc, mode, i, errs, startResult, sstop>>

\* lines 171-175: Serve or ServeTLS of listener k returns r, which goes
\* through errFn onto errChan.  ServeTLS returns at once, and leaves the
\* listener open, when the certificate or the key does not load.  Serve
\* closes its listener when it returns; once the server is shutting down
\* it returns ErrServerClosed, and never before.
serveReturn(k, r) ==
    /\ serve[k] \in {"spawned", "serving"}
    /\ r = ErrServerClosed => inShutdown
    /\ r = AcceptFailed => (serve[k] = "serving" /\ ~inShutdown)
    /\ r = BadCertificate => (serve[k] = "spawned" /\ mode[k] = "tls")
    /\ Len(errChan) < Len(cl)
    /\ errChan' = Append(errChan, errFn(cl[k], r))
    /\ serve' = [serve EXCEPT ![k] = "reported"]
    /\ report' = [report EXCEPT ![k] = r]
    /\ open' = IF r = BadCertificate THEN open ELSE open \ {cl[k]}
    /\ UNCHANGED <<wvars, sconfig, startPc, mode, i, errs, startResult, sstop>>

\* lines 196-204: one turn of the loop, which takes one report
startRecv ==
    /\ startPc = "loop"
    /\ i < Len(cl)
    /\ errChan # <<>>
    /\ errChan' = Tail(errChan)
    /\ errs' = IF ~Benign(Head(errChan))
               THEN Append(errs, Wrap("received error from", "", Head(errChan)))
               ELSE errs
    /\ i' = i + 1
    /\ UNCHANGED <<wvars, sconfig, startPc, serve, mode, startResult, sstop,
                   report, open>>

\* mutant: start returns after the first report, as an earlier revision did
startReturnFirst ==
    /\ startPc = "loop"
    /\ i >= 1
    /\ startResult' = Join(errs)
    /\ startPc' = "returned"
    /\ UNCHANGED <<wvars, sconfig, serve, mode, errChan, i, errs, sstop, report,
                   open>>

\* line 205: the loop is over, return errors.Join(errs...)
startReturn ==
    /\ startPc = "loop"
    /\ i >= Len(cl)
    /\ startResult' = Join(errs)
    /\ startPc' = "returned"
    /\ UNCHANGED <<wvars, sconfig, serve, mode, errChan, i, errs, sstop, report,
                   open>>

(***************************************************************************)
(* stop, http_server.go:208-227                                            *)
(***************************************************************************)
sstart == <<startPc, serve, mode, errChan, i, errs, startResult, report>>

\* mutant: stop without the wait of lines 213-220
stopBeginNoGrace ==
    /\ buildPc = "ok"
    /\ stopPc = "idle"
    /\ stopPc' = "shutdown"
    /\ UNCHANGED <<wvars, sconfig, sstart, stopCtxDone, inShutdown, stopResult,
                   lnerr, closeFailed, woke, open>>

\* lines 209-213: cc.cancelFn is nil (initBaseContext is not called); with
\* a grace delay the timer is started
stopBegin ==
    /\ buildPc = "ok"
    /\ stopPc = "idle"
    /\ stopPc' = IF gWait > 0 THEN "grace" ELSE "shutdown"
    /\ UNCHANGED <<wvars, sconfig, sstart, stopCtxDone, inShutdown, stopResult,
                   lnerr, closeFailed, woke, open>>

\* lines 216-219: the timer ticks
stopTimer ==
    /\ stopPc = "grace"
    /\ stopPc' = "shutdown"
    /\ woke' = "timer"
    /\ UNCHANGED <<wvars, sconfig, sstart, stopCtxDone, inShutdown, stopResult,
                   lnerr, closeFailed, open>>

\* lines 216-219: or the context is done first
stopCtxWake ==
    /\ stopPc = "grace"
    /\ stopCtxDone
    /\ stopPc' = "shutdown"
    /\ woke' = "ctx"
    /\ UNCHANGED <<wvars, sconfig, sstart, stopCtxDone, inShutdown, stopResult,
                   lnerr, closeFailed, open>>

\* line 222: cc.s.Shutdown(ctx) marks the server as shutting down and
\* closes every listener it has in its set, those of the goroutines that
\* are in Serve; of the errors of these Close calls (those of the
\* listeners in F) it keeps one
stopShutdown ==
    /\ stopPc = "shutdown"
    /\ LET tracked == {k \in 1..Len(cl) : serve[k] = "serving"} IN
       \E F \in SUBSET tracked :
          /\ closeFailed' = {cl[k] : k \in F}
          /\ lnerr' \in IF F = {} THEN {Nil}
                        ELSE {Wrap("close", cl[k], CloseFailed) : k \in F}
          /\ open' = open \ {cl[k] : k \in tracked}
    /\ inShutdown' = TRUE
    /\ stopPc' = "draining"
    /\ UNCHANGED <<wvars, sconfig, sstart, stopCtxDone, stopResult, woke>>

\* lines 222-226: Shutdown has waited for the goroutines that were in
\* Serve, and returns r, which stop returns: the error it kept from
\* closing the listeners (nil if none) when it finds every connection
\* idle, or ctx.Err() when the context is done while some connection is
\* not
stopReturn(r) ==
    /\ stopPc = "draining"
    /\ \A k \in 1..Len(cl) : serve[k] # "serving"
    /\ \/ r = lnerr
       \/ r = DeadlineExceeded /\ stopCtxDone
    /\ stopResult' = r
    /\ stopPc' = "returned"
    /\ UNCHANGED <<wvars, sconfig, sstart, stopCtxDone, inShutdown, lnerr,
                   closeFailed, woke, open>>

\* the caller's context of stop is cancelled, or its deadline passes
StopCtxCancel ==
    /\ buildPc = "ok"
    /\ ~stopCtxDone
    /\ stopPc # "returned"
    /\ stopCtxDone' = TRUE
    /\ UNCHANGED <<wvars, sconfig, sstart, stopPc, inShutdown, stopResult,
                   lnerr, closeFailed, woke, open>>

ServerNext ==
    \/ startBegin
    \/ \E k \in 1..Len(cl) : serveTrack(k)
    \/ \E k \in 1..Len(cl) :
          \E r \in {ErrServerClosed, AcceptFailed, BadCertificate} :
             serveReturn(k, r)
    \/ startRecv
    \/ startReturn
    \/ stopBegin
    \/ stopTimer
    \/ stopCtxWake
    \/ stopShutdown
    \/ \E r \in {lnerr, DeadlineExceeded} : stopReturn(r)
    \/ StopCtxCancel

ServerSpec == ServerInit /\ [][ServerNext]_vars

(***************************************************************************)
(* HttpServer and its configuration steps, http_server.go:15-130, 230-254  *)
(***************************************************************************)
\* how many steps a call of HttpServer is given
MaxSteps == 3

\* the files that exist
Files == {"cert.pem", "key.pem"}

\* lines 15-20: os.Stat of a path that names no file, the empty path
\* included, fails with an error for which os.IsNotExist holds
fileExists(dir) == dir \in Files

\* the addresses another process has bound
InUse == {":9090"}

\* fmt.Errorf("msg %q", arg)
Errorf(msg, arg) == << <<msg, arg>> >>

\* the error of net.Listen(network, addr): the address must not be bound
Listen(addr) ==
    IF addr \in InUse \cup open
    THEN Wrap("listen", addr, Err("address already in use"))
    ELSE Nil

\* the steps of the model, as <<name, argument, argument>>
Setters ==
    {<<"OnTCP", a, "">> : a \in {"", ":8080", ":9090"}}
    \cup {<<"OnSocket", "/run/app.sock", "">>}
    \cup {<<"WithTLSCert", c0, k0>> : c0 \in {"cert.pem", "nocert.pem"},
                                     k0 \in {"key.pem", ""}}
    \cup {<<"Handler", "", "">>, <<"GracefulWait", "", "">>}
    \cup {<<"OnSystemd", n, "">> : n \in {"", "2", "5", "6"}}
    \cup {<<"OnSystemd", "5", "4">>}

\* lines 45-50
GracefulWait ==
    /\ gWait' = 1
    /\ buildErr' = Nil
    /\ UNCHANGED <<cl, open, cert, key, ch>>

\* lines 52-67
OnTCP(addr) ==
    LET a == IF addr # "" THEN addr
             ELSE IF StrLen(key) + StrLen(cert) > 0 THEN ":https" ELSE ":http"
    IN  /\ buildErr' = Listen(a)
        /\ cl' = IF Listen(a) = Nil THEN Append(cl, a) ELSE cl
        /\ open' = IF Listen(a) = Nil THEN open \cup {a} ELSE open
        /\ UNCHANGED <<cert, key, ch, gWait>>

\* mutant: only the certificate is looked for
WithTLSCertNoKeyCheck(c0, k0) ==
    /\ buildErr' = IF ~fileExists(c0)
                   THEN Errorf("invalid certificate file", c0)
                   ELSE Nil
    /\ cert' = IF buildErr' = Nil THEN c0 ELSE cert
    /\ key' = IF buildErr' = Nil THEN k0 ELSE key
    /\ UNCHANGED <<cl, open, ch, gWait>>

\* lines 69-81
WithTLSCert(c0, k0) ==
    /\ buildErr' = IF ~fileExists(c0)
                   THEN Errorf("invalid certificate file", c0)
                   ELSE IF ~fileExists(k0)
                   THEN Errorf("invalid key file", k0)
                   ELSE Nil
    /\ cert' = IF buildErr' = Nil THEN c0 ELSE cert
    /\ key' = IF buildErr' = Nil THEN k0 ELSE key
    /\ UNCHANGED <<cl, open, ch, gWait>>

\* lines 83-88
Handler ==
    /\ ch' = TRUE
    /\ buildErr' = Nil
    /\ UNCHANGED <<cl, open, cert, key, gWait>>

\* lines 90-99
OnSocket(s) ==
    /\ buildErr' = Listen(s)
    /\ cl' = IF Listen(s) = Nil THEN Append(cl, s) ELSE cl
    /\ open' = IF Listen(s) = Nil THEN open \cup {s} ELSE open
    /\ UNCHANGED <<cert, key, ch, gWait>>

\* strconv.Atoi and strconv.ParseInt of the values of the environment: a
\* string of one digit is its number, the empty string (the variable is
\* not set) is an error
Numerals == <<"0", "1", "2", "3", "4", "5", "6", "7", "8", "9">>

CanParse(s) == \E n \in 1..Len(Numerals) : Numerals[n] = s

Atoi(s) == (CHOOSE n \in 1..Len(Numerals) : Numerals[n] = s) - 1

\* the descriptors of the process that are sockets, and those that are
\* regular files; no other descriptor from 3 on is open
SocketFds == {3, 4}
FileFds == {5}

\* the address of the listener made of descriptor f
FdAddr(f) == <<"fd:3", "fd:4", "fd:5", "fd:6", "fd:7", "fd:8">>[f - 2]

IsFd(a) == \E f \in 3..8 : FdAddr(f) = a

NotSystemd ==
    Err("it appears that we're not expected to wait for a systemd socket connection")
BadFd == Err("bad file descriptor")

\* lines 101-130, called with LISTEN_FDS = fds and SD_LISTEN_FDS_START =
\* fdStart: the loop of line 113 runs i from start while i < nfds, and ends
\* the step at the first descriptor that is no socket, with the listeners
\* before it appended
OnSystemd(fds, fdStart) ==
    IF ~CanParse(fds) \/ Atoi(fds) <= 0
    THEN /\ buildErr' = NotSystemd
         /\ UNCHANGED <<cl, open, cert, key, ch, gWait>>
    ELSE LET nfds == Atoi(fds)
             start == IF CanParse(fdStart) THEN Atoi(fdStart) ELSE 3
             bad == {f \in start..(nfds - 1) : f \notin SocketFds}
             stopAt == IF bad = {} THEN nfds
                       ELSE CHOOSE f \in bad : \A g \in bad : f <= g
             added == [j \in 1..(stopAt - start) |-> FdAddr(start + j - 1)]
         IN  /\ buildErr' = IF bad = {} THEN Nil
                            ELSE IF stopAt \in FileFds THEN NotSystemd
                            ELSE BadFd
             /\ cl' = cl \o added
             /\ open' = open \cup {added[j] : j \in 1..Len(added)}
             /\ UNCHANGED <<cert, key, ch, gWait>>

\* fn(&c) of line 235
Call(fn) ==
    \/ fn[1] = "OnSystemd" /\ OnSystemd(fn[2], fn[3])
    \/ fn[1] = "GracefulWait" /\ GracefulWait
    \/ fn[1] = "OnTCP" /\ OnTCP(fn[2])
    \/ fn[1] = "WithTLSCert" /\ WithTLSCert(fn[2], fn[3])
    \/ fn[1] = "Handler" /\ Handler
    \/ fn[1] = "OnSocket" /\ OnSocket(fn[2])

\* mutant: the loop goes on after a step that failed
HttpServerLoopGoesOn ==
    /\ buildPc = "steps"
    /\ Len(applied) < Len(setters)
    /\ Call(setters[Len(applied) + 1])
    /\ applied' = Append(applied, buildErr')
    /\ UNCHANGED <<wvars, sstart, sstop, setters, buildPc>>

\* lines 234-238: one turn of the loop calls the next step, and a step
\* that fails ends the build
HttpServerLoop ==
    /\ buildPc = "steps"
    /\ Len(applied) < Len(setters)
    /\ Call(setters[Len(applied) + 1])
    /\ applied' = Append(applied, buildErr')
    /\ buildPc' = IF buildErr' # Nil THEN "failed" ELSE "steps"
    /\ UNCHANGED <<wvars, sstart, sstop, setters>>

NoListeners == Err("no listeners have been configured")
NoHandler == Err("no handler has been configured")

\* mutant: the build does not look at len(c.l)
HttpServerReturnNoListenerCheck ==
    /\ buildPc = "steps"
    /\ Len(applied) = Len(setters)
    /\ IF ~ch
       THEN buildErr' = NoHandler /\ buildPc' = "failed"
       ELSE buildErr' = Nil /\ buildPc' = "ok"
    /\ UNCHANGED <<wvars, sstart, sstop, setters, applied, cl, open, cert, key,
                   ch, gWait>>

\* lines 239-253: every step is done; without a listener or without a
\* handler the build fails, otherwise c.start and c.stop are returned
HttpServerReturn ==
    /\ buildPc = "steps"
    /\ Len(applied) = Len(setters)
    /\ IF Len(cl) = 0
       THEN buildErr' = NoListeners /\ buildPc' = "failed"
       ELSE IF ~ch
       THEN buildErr' = NoHandler /\ buildPc' = "failed"
       ELSE buildErr' = Nil /\ buildPc' = "ok"
    /\ UNCHANGED <<wvars, sstart, sstop, setters, applied, cl, open, cert, key,
                   ch, gWait>>

\* lines 148-152: a call of the start function of a failed build
errStartFn ==
    /\ buildPc = "failed"
    /\ startPc' = "returned"
    /\ startResult' = buildErr
    /\ UNCHANGED <<wvars, sconfig, serve, mode, errChan, i, errs, report, sstop,
                   open>>

\* lines 153-155: a call of the stop function of a failed build
emptyStopFn ==
    /\ buildPc = "failed"
    /\ stopPc' = "returned"
    /\ stopResult' = Nil
    /\ UNCHANGED <<wvars, sconfig, sstart, stopCtxDone, inShutdown, lnerr,
                   closeFailed, woke, open>>

\* a call of HttpServer with up to MaxSteps steps: c := c{l: make(...)}
BuildInit ==
    /\ WrapperIdle
    /\ setters \in UNION {[1..n -> Setters] : n \in 0..MaxSteps}
    /\ applied = <<>>
    /\ buildPc = "steps"
    /\ buildErr = Nil
    /\ ch = FALSE
    /\ cl = <<>>
    /\ cert = ""
    /\ key = ""
    /\ gWait = 0
    /\ open = {}
    /\ startPc = "idle"
    /\ serve = <<>>
    /\ mode = <<>>
    /\ errChan = <<>>
    /\ i = 0
    /\ errs = <<>>
    /\ startResult = <<>>
    /\ stopPc = "idle"
    /\ stopCtxDone = FALSE
    /\ inShutdown = FALSE
    /\ stopResult = Nil
    /\ report = <<>>
    /\ lnerr = Nil
    /\ closeFailed = {}
    /\ woke = "none"

BuildNext ==
    \/ HttpServerLoop
    \/ HttpServerReturn
    \/ errStartFn
    \/ emptyStopFn
    \/ startBegin

BuildSpec == BuildInit /\ [][BuildNext]_vars

(***************************************************************************)
(* Fairness: the Go scheduler runs every goroutine that can take a step.   *)
(* Nothing is assumed of the environment (signals, the caller's context)   *)
(* nor of the workload, which may run for ever.                            *)
(***************************************************************************)
Fairness ==
    /\ WF_vars(ExecStart)
    /\ WF_vars(ExecRecv)
    /\ WF_vars(ExecCleanup)
    /\ WF_vars(waitStart)
    /\ WF_vars(waitCtxDone)
    /\ WF_vars(waitRecvErr)
    /\ WF_vars(waitSend)
    /\ WF_vars(waitGoHandler)
    /\ WF_vars(execStart)
    /\ WF_vars(execSend)
    /\ \A s \in Sigs : WF_vars(handler(s))

FairSpec == Init /\ [][Next]_vars /\ Fairness

\* a workload that returns once it has seen its context cancelled
CoopSpec == FairSpec /\ WF_vars(fnReturn(Canceled))

(***************************************************************************)
(* The composed use: start is the workload given to Exec, and the handler  *)
(* registered for SIGTERM calls stop and writes what stop returns to its   *)
(* sink:                                                                   *)
(*     start, stop := HttpServer(..., GracefulWait(d), ...)                *)
(*     RegisterSignalHandlers(SignalHandlers{                              *)
(*         syscall.SIGTERM: func(ch chan<- error) { ch <- stop(ctx) },     *)
(*     }).Exec(context.Background(), start)                                *)
(* where ctx is a context with a deadline made for stop.                   *)
(* The steps of Exec, wait and exec are those of wrapper.go above, the     *)
(* steps of start and stop those of http_server.go above; the steps below  *)
(* are the calls that join them.  A panic ends the process, and with it    *)
(* the goroutines of the server.                                           *)
(***************************************************************************)
\* the signal whose handler calls stop
StopSig == "SIGTERM"

\* a step of a goroutine of the server, in a process that is still there
Live(A) == ~panicked /\ A

\* wrapper.go:76, fn(ctx): the workload is start, which is entered
workloadStart ==
    /\ ~panicked
    /\ fnPc = "running"
    /\ startBegin

\* wrapper.go:76, fn(ctx) returns what start returned
workloadReturn ==
    /\ ~panicked
    /\ fnPc = "running"
    /\ startPc = "returned"
    /\ fnVal' = startResult
    /\ fnPc' = "send"
    /\ quietReturn' = (killed = 0)
    /\ UNCHANGED <<config, subscribed, parentDone, cancelCalled, execPc, result,
                   errq, wloop, sink, sinkClosed, tasks, panicked, killed, written,
                   taken, started, lostRunning, lateRecv, lateStart, sendLog,
                   recvCount>>
    /\ UNCHANGED svars

\* a handler goroutine started at wrapper.go:69 enters stop.  (stopPc is
\* the position of one call of stop: the handler goroutine of a further
\* signal enters stop when the call before it has returned and its result
\* has been written.)
handlerStop ==
    /\ ~panicked
    /\ tasks[StopSig] > 0
    /\ stopBegin

\* the handler writes what stop returned to the sink and ends: a send on
\* the closed sink panics, a send on the full sink blocks
handlerSend ==
    /\ ~panicked
    /\ tasks[StopSig] > 0
    /\ stopPc = "returned"
    /\ IF sinkClosed
       THEN /\ panicked' = TRUE
            /\ UNCHANGED <<sink, written, tasks, stopPc>>
       ELSE /\ Len(sink) < SinkCap
            /\ sink' = Append(sink, stopResult)
            /\ written' = Append(written, stopResult)
            /\ tasks' = [tasks EXCEPT ![StopSig] = @ - 1]
            /\ stopPc' = "idle"
            /\ UNCHANGED panicked
    /\ UNCHANGED <<config, subscribed, parentDone, cancelCalled, execPc, result,
                   errq, wloop, sinkClosed, fnPc, fnVal, killed, taken, started,
                   lostRunning, lateRecv, lateStart, quietReturn, sendLog,
                   recvCount>>
    /\ UNCHANGED <<sconfig, sstart, stopCtxDone, inShutdown, stopResult, lnerr,
                   closeFailed, woke, open>>

\* RegisterSignalHandlers with the handler of SIGTERM, a workload that is
\* not nil, and the server of a successful build: MaxListeners listeners,
\* plain HTTP, a grace delay
ComposedInit ==
    /\ built = "Register"
    /\ h = [s \in {StopSig} |-> <<Nil>>]
    /\ fnNil = FALSE
    /\ subscribed = Notify(signals(h))
    /\ parentDone = FALSE
    /\ cancelCalled = FALSE
    /\ execPc = "start"
    /\ result = Nil
    /\ errq = <<>>
    /\ waitPc = "none"
    /\ waitSig = "none"
    /\ waitErr = Nil
    /\ sink = <<>>
    /\ sinkClosed = FALSE
    /\ fnPc = "none"
    /\ fnVal = Nil
    /\ tasks = [s \in Sigs |-> 0]
    /\ panicked = FALSE
    /\ killed = 0
    /\ sendLog = <<>>
    /\ recvCount = 0
    /\ written = <<>>
    /\ taken = <<>>
    /\ started = [s \in Sigs |-> 0]
    /\ lostRunning = 0
    /\ lateRecv = FALSE
    /\ lateStart = FALSE
    /\ quietReturn = FALSE
    /\ cl = SubSeq(Addrs, 1, MaxListeners)
    /\ cert = ""
    /\ key = ""
    /\ gWait = 1
    /\ startPc = "idle"
    /\ serve = [k \in 1..Len(cl) |-> "none"]
    /\ mode = [k \in 1..Len(cl) |-> "none"]
    /\ errChan = <<>>
    /\ i = 0
    /\ errs = <<>>
    /\ startResult = <<>>
    /\ stopPc = "idle"
    /\ stopCtxDone = FALSE
    /\ inShutdown = FALSE
    /\ stopResult = Nil
    /\ report = [k \in 1..Len(cl) |-> Nil]
    /\ open = {cl[k] : k \in 1..Len(cl)}
    /\ lnerr = Nil
    /\ closeFailed = {}
    /\ woke = "none"
    /\ setters = <<>>
    /\ applied = <<>>
    /\ buildPc = "ok"
    /\ buildErr = Nil
    /\ ch = TRUE

ComposedNext ==
    \/ ExecStart
    \/ ExecRecv
    \/ ExecCleanup
    \/ waitStart
    \/ waitCtxDone
    \/ waitRecvErr
    \/ waitSend
    \/ waitGoHandler
    \/ Kill(StopSig)
    \/ execStart
    \/ workloadStart
    \/ \E k \in 1..Len(cl) : Live(serveTrack(k))
    \/ \E k \in 1..Len(cl) :
          \E r \in {ErrServerClosed, AcceptFailed} : Live(serveReturn(k, r))
    \/ Live(startRecv)
    \/ Live(startReturn)
    \/ workloadReturn
    \/ execSend
    \/ handlerStop
    \/ Live(stopTimer)
    \/ Live(stopCtxWake)
    \/ Live(stopShutdown)
    \/ \E r \in {lnerr, DeadlineExceeded} : Live(stopReturn(r))
    \/ Live(StopCtxCancel)
    \/ handlerSend

\* The Go scheduler runs every goroutine that can take a step, the timer of
\* the grace delay ticks, and Serve returns once the server is shutting
\* down.  Nothing is assumed of the signals, of the context of stop, of a
\* listener failing, nor of Shutdown, which waits as long as a connection
\* is busy and the context it was given is not done.
ComposedFairness ==
    /\ WF_vars(ExecStart)
    /\ WF_vars(ExecRecv)
    /\ WF_vars(ExecCleanup)
    /\ WF_vars(waitStart)
    /\ WF_vars(waitCtxDone)
    /\ WF_vars(waitRecvErr)
    /\ WF_vars(waitSend)
    /\ WF_vars(waitGoHandler)
    /\ WF_vars(execStart)
    /\ WF_vars(workloadStart)
    /\ \A k \in 1..MaxListeners :
          WF_vars(Live(k <= Len(cl) /\ serveReturn(k, ErrServerClosed)))
    /\ WF_vars(Live(startRecv))
    /\ WF_vars(Live(startReturn))
    /\ WF_vars(workloadReturn)
    /\ WF_vars(execSend)
    /\ WF_vars(handlerStop)
    /\ WF_vars(Live(stopTimer))
    /\ WF_vars(Live(stopShutdown))
    /\ WF_vars(handlerSend)

ComposedSpec == ComposedInit /\ [][ComposedNext]_vars /\ ComposedFairness

(***************************************************************************)
(* Helpers of the properties.                                              *)
(***************************************************************************)
\* the first value of a sequence of errors that is not nil (Nil if none)
RECURSIVE FirstNonNil(_)
FirstNonNil(q) ==
    IF q = <<>> THEN Nil
    ELSE IF Head(q) # Nil THEN Head(q) ELSE FirstNonNil(Tail(q))

HasNonNil(q) == \E n \in 1..Len(q) : q[n] # Nil

\* Exec has received its outcome
Terminated == recvCount > 0

\* the outcome Exec received was sent by the dispatch loop
LoopWon == Terminated /\ sendLog # <<>> /\ sendLog[1][1] = "wait"

RECURSIVE SumOver(_, _)
SumOver(f, S) ==
    IF S = {} THEN 0
    ELSE LET x == CHOOSE y \in S : TRUE IN f[x] + SumOver(f, S \ {x})

(***************************************************************************)
(* C1.  On a router built by RegisterSignalHandlers, Exec receives exactly *)
(* one value from ww.err, and the value it returns is the first one that   *)
(* was sent on ww.err, whichever of the workload and the dispatch loop     *)
(* sent it.                                                                *)
(***************************************************************************)
C1_FirstSentWins ==
    (built = "Register" /\ Terminated) =>
        /\ recvCount = 1
        /\ sendLog # <<>>
        /\ result = sendLog[1][2]

\* the loop sent first, the workload second with another value, and Exec
\* returned the loop's value
C1_Witness ==
    /\ built = "Register"
    /\ execPc = "returned"
    /\ Len(sendLog) = 2
    /\ sendLog[1][1] = "wait"
    /\ sendLog[2][1] = "exec"
    /\ sendLog[1][2] # sendLog[2][2]
    /\ result = sendLog[1][2]

(***************************************************************************)
(* C2.  If a handler writes nil to its sink while the workload is running  *)
(* and nothing else has written an outcome, Exec terminates with nil: the  *)
(* loop that has taken the nil from the sink goes on to send it on ww.err. *)
(***************************************************************************)
C2_NilTerminates ==
    (/\ taken # <<>>
     /\ taken[1] = Nil
     /\ fnPc = "running"
     /\ sendLog = <<>>
     /\ ~ctxDone) => waitPc \in {"send", "done"}

(***************************************************************************)
(* C3, as claimed.  Whatever error a handler writes, if the loop's send    *)
(* is the outcome Exec receives, Exec returns exactly that error.          *)
(***************************************************************************)
C3_ExactError ==
    LoopWon => result = FirstNonNil(taken)

(***************************************************************************)
(* C3, amended.  The loop forwards the first non-nil value it takes from   *)
(* the sink: once it has taken one it is sending or has sent, and if its   *)
(* send is the outcome Exec receives, Exec returns exactly that error,     *)
(* unless the error is or wraps Interrupt, and then Exec returns nil.      *)
(***************************************************************************)
C3_ExactErrorButInterrupt ==
    LET e == FirstNonNil(taken) IN
    /\ HasNonNil(taken) => waitPc \in {"send", "done"}
    /\ LoopWon =>
          /\ HasNonNil(taken)
          /\ ErrorsIs(e, Interrupt) => result = Nil
          /\ ~ErrorsIs(e, Interrupt) => result = e

\* a handler wrote E1 while the workload was running, and Exec returned E1
C3_Witness ==
    /\ execPc = "returned"
    /\ LoopWon
    /\ fnPc = "running"
    /\ written = <<Err("E1")>>
    /\ result = Err("E1")

(***************************************************************************)
(* C4.  start launches one serve goroutine per listener, and when it has   *)
(* returned it has taken the report of every one of them: all N goroutines *)
(* have reported and N reports were consumed, never only the first.        *)
(***************************************************************************)
C4_StartWaitsForAll ==
    /\ startPc # "idle" =>
          /\ Len(serve) = Len(cl)
          /\ \A k \in 1..Len(cl) : serve[k] # "none"
    /\ startPc = "returned" =>
          /\ i = Len(cl)
          /\ errChan = <<>>
          /\ \A k \in 1..Len(cl) : serve[k] = "reported"

\* start returned with two or more listeners whose reports differ
C4_Witness ==
    /\ startPc = "returned"
    /\ Len(cl) >= 2
    /\ i = Len(cl)
    /\ report[1] # report[2]

(***************************************************************************)
(* C5.  The error start returns joins every report that is not the benign  *)
(* ErrServerClosed: each listener that ended abnormally is in it, with its *)
(* address and its error; a benign report adds nothing; and the result is  *)
(* nil exactly when every report was benign.                               *)
(***************************************************************************)
C5_StartJoinsAllErrors ==
    startPc = "returned" =>
        LET bad == {k \in 1..Len(cl) : report[k] # ErrServerClosed} IN
        /\ (startResult = <<>>) <=> (bad = {})
        /\ Len(startResult) = Cardinality(bad)
        /\ \A k \in bad : \E j \in 1..Len(startResult) :
              startResult[j] =
                 Wrap("received error from", "",
                      Wrap("error on listener", cl[k], report[k]))

\* one listener closed by the shutdown, another one failed: one error
C5_Witness ==
    /\ startPc = "returned"
    /\ Len(startResult) = 1
    /\ \E k1, k2 \in 1..Len(cl) :
          /\ report[k1] = ErrServerClosed
          /\ report[k2] = AcceptFailed

(***************************************************************************)
(* C6.  On a router built by RegisterSignalHandlers no writer to ww.err    *)
(* blocks for ever: a goroutine that is at its send on ww.err, the loop or *)
(* the workload's, completes the send and ends (unless the process has     *)
(* crashed, and then no goroutine is left to be blocked).                  *)
(***************************************************************************)
C6_NoWriterBlocksForever ==
    /\ (built = "Register" /\ waitPc = "send") ~> (waitPc = "done" \/ panicked)
    /\ (built = "Register" /\ fnPc = "send") ~> (fnPc = "done" \/ panicked)

\* both have sent, the second after Exec had received the first
C6_Witness ==
    /\ built = "Register"
    /\ Len(sendLog) = 2
    /\ waitPc = "done"
    /\ fnPc = "done"
    /\ execPc = "returned"
    /\ Len(errq) = 1

(***************************************************************************)
(* C7.  cancelFn runs only after Exec has received its outcome (or has a   *)
(* nil workload), and when Exec has returned the derived context is        *)
(* cancelled and the signal subscription is stopped.                       *)
(***************************************************************************)
C7_CleanupOnReturn ==
    /\ cancelCalled => (recvCount = 1 \/ fnNil)
    /\ execPc = "returned" => (cancelCalled /\ subscribed = {})

\* Exec returned on a handler's outcome, with a subscription to stop
C7_Witness ==
    /\ built = "Register"
    /\ execPc = "returned"
    /\ LoopWon
    /\ cancelCalled
    /\ subscribed = {}

(***************************************************************************)
(* C8.  If the workload returns before any signal is sent, Exec returns    *)
(* the workload's result, and a registered signal that arrives once Exec   *)
(* has received its outcome starts no handler goroutine.                   *)
(***************************************************************************)
C8_NoDispatchAfterTermination ==
    /\ (quietReturn /\ Terminated) => result = fnVal
    /\ ~lateStart

(***************************************************************************)
(* C9.  Every registered signal sent while the workload is running starts  *)
(* its handler exactly once: none is dropped, none is dispatched twice.    *)
(***************************************************************************)
C9_EverySignalDispatchedOnce ==
    /\ lostRunning = 0
    /\ SumOver(started, Sigs) <= killed

(***************************************************************************)
(* C10.  Handlers run as goroutines of their own: while a handler          *)
(* goroutine is alive (running, sleeping, or blocked on the sink) the loop *)
(* is not waiting for it.  The loop is in its select, where it takes a     *)
(* cancelled context, a value of the sink or, when parked, the next        *)
(* signal; or it is dispatching, sending its outcome, or done.             *)
(***************************************************************************)
C10_HandlersNeverInline ==
    \A s \in DOMAIN h : tasks[s] > 0 =>
        \/ waitPc \in {"dispatch", "send", "done"}
        \/ /\ waitPc = "select"
           /\ ctxDone => ENABLED waitCtxDone
           /\ sink # <<>> => ENABLED waitRecvErr
           /\ (~ctxDone /\ sink = <<>>) =>
                 \A t \in subscribed : Receives(t)

\* two handlers of distinct signals are alive at once
C10_Witness ==
    \E s, t \in DOMAIN h : s # t /\ tasks[s] > 0 /\ tasks[t] > 0

(***************************************************************************)
(* C11.  While Exec waits for its outcome the router is subscribed to      *)
(* exactly the keys of its handler map; a signal that is not a key starts  *)
(* no handler goroutine; and with an empty map the outcome of Exec is the  *)
(* workload's.                                                             *)
(***************************************************************************)
C11_SubscribesExactlyKeys ==
    /\ (built = "Register" /\ execPc = "recv") => subscribed = signals(h)
    /\ \A s \in Sigs \ signals(h) : started[s] = 0 /\ tasks[s] = 0
    /\ (signals(h) = {} /\ Terminated) =>
          /\ written = <<>>
          /\ sendLog[1][1] = "exec"

(***************************************************************************)
(* C12.  With a nil workload Exec returns nil at once: from its start it   *)
(* goes straight to its deferred cleanup; the dispatch loop and the        *)
(* workload goroutine are never started, no handler goroutine is started,  *)
(* nothing is sent on ww.err and nothing is received from it, whatever     *)
(* the handler map and whatever signals are sent.                          *)
(***************************************************************************)
C12_NilWorkloadReturnsAtOnce ==
    fnNil =>
        /\ execPc \in {"start", "cleanup", "returned"}
        /\ result = Nil
        /\ waitPc = "none"
        /\ fnPc = "none"
        /\ recvCount = 0
        /\ sendLog = <<>>
        /\ \A s \in Sigs : started[s] = 0

\* Exec returned on a nil workload, with two handlers registered and
\* signals sent before and during the call
C12_Witness ==
    /\ fnNil
    /\ built = "Register"
    /\ execPc = "returned"
    /\ result = Nil
    /\ signals(h) = Sigs
    /\ killed = MaxSignals

(***************************************************************************)
(* C13.  With a workload that returns once its context is cancelled and    *)
(* handlers that return, once Exec has returned every goroutine it         *)
(* started ends normally: the dispatch loop and the workload goroutine     *)
(* are done, no handler goroutine is left, and none of them has panicked.  *)
(***************************************************************************)
C13_NoTaskOutlivesExec ==
    (execPc = "returned") ~>
        [](/\ waitPc \in {"none", "done"}
           /\ fnPc \in {"none", "done"}
           /\ \A s \in Sigs : tasks[s] = 0
           /\ ~panicked)

(***************************************************************************)
(* C14.  HttpServer calls its steps in the order given and stops at the    *)
(* first one that fails: every step called before the last one called      *)
(* returned nil, the listeners bound by the configuration are those of the *)
(* OnTCP and OnSocket steps that succeeded, in their order, and when a     *)
(* step failed the build has failed with that step's error, which is the   *)
(* error the returned start function reports.                              *)
(***************************************************************************)
IsListenerStep(fn) == fn[1] \in {"OnTCP", "OnSocket"}

C14_StepsInOrderFirstFailureWins ==
    LET n == Len(applied)
        good == IF n > 0 /\ applied[n] # Nil THEN n - 1 ELSE n
        want == SelectSeq(SubSeq(setters, 1, good), IsListenerStep)
        got == SelectSeq(cl, LAMBDA a : ~IsFd(a))
    IN  /\ n <= Len(setters)
        /\ \A k \in 1..(n - 1) : applied[k] = Nil
        /\ good < n =>
              /\ buildPc = "failed"
              /\ buildErr = applied[n]
              /\ startPc = "returned" => startResult = applied[n]
        /\ buildPc = "ok" => good = Len(setters)
        /\ Len(got) = Len(want)
        /\ \A j \in 1..Len(got) :
              \/ got[j] = want[j][2]
              \/ want[j][2] = "" /\ got[j] \in {":http", ":https"}

\* the second of three steps failed after a listener was bound, the third
\* was not called, and start reports the error of the second
C14_Witness ==
    /\ buildPc = "failed"
    /\ Len(setters) = 3
    /\ Len(applied) = 2
    /\ applied[2] # Nil
    /\ Len(cl) = 1
    /\ IsListenerStep(setters[1])
    /\ IsListenerStep(setters[3])
    /\ startPc = "returned"
    /\ startResult = applied[2]

(***************************************************************************)
(* C15.  A build without a listener or without a handler fails, and after  *)
(* a failed build start and stop do nothing: every call of start returns   *)
(* the error of the build and no serve goroutine exists, every call of     *)
(* stop returns nil and the server is not shut down.  A build in which     *)
(* every step succeeded and no listener was configured fails with "no      *)
(* listeners have been configured".                                        *)
(***************************************************************************)
C15_FailedBuildIsInert ==
    /\ (buildPc \in {"ok", "failed"} /\ (Len(cl) = 0 \/ ~ch)) =>
          buildPc = "failed"
    /\ buildPc = "failed" =>
          /\ buildErr # Nil
          /\ (Len(cl) = 0 /\ \A k \in 1..Len(applied) : applied[k] = Nil) =>
                buildErr = NoListeners
          /\ startPc \in {"idle", "returned"}
          /\ startPc = "returned" => startResult = buildErr
          /\ stopPc \in {"idle", "returned"}
          /\ stopPc = "returned" => stopResult = Nil
          /\ serve = <<>>
          /\ mode = <<>>
          /\ errChan = <<>>
          /\ ~inShutdown
          /\ lnerr = Nil

\* steps that configure no listener: the build failed for it, and start
\* and stop were called
C15_Witness ==
    /\ buildPc = "failed"
    /\ Len(setters) > 0
    /\ Len(applied) = Len(setters)
    /\ buildErr = NoListeners
    /\ startPc = "returned"
    /\ startResult = NoListeners
    /\ stopPc = "returned"

(***************************************************************************)
(* C16.  A failed build leaves no listener open: when HttpServer has       *)
(* returned errStartFn and emptyStopFn, no listener bound by a step of     *)
(* that build is still bound.                                              *)
(***************************************************************************)
C16_FailedBuildLeaksNoDescriptor ==
    buildPc = "failed" => open = {}

(***************************************************************************)
(* C17.  A WithTLSCert step whose certificate or key does not exist.       *)
(***************************************************************************)
BadTLS(fn) ==
    fn[1] = "WithTLSCert" /\ (~fileExists(fn[2]) \/ ~fileExists(fn[3]))

\* the error that names the missing file, the certificate before the key
MissingFile(fn) ==
    IF ~fileExists(fn[2])
    THEN Errorf("invalid certificate file", fn[2])
    ELSE Errorf("invalid key file", fn[3])

(***************************************************************************)
(* C17, as claimed.  Whenever the steps hold a WithTLSCert step with a     *)
(* missing file, at whatever position, the build does not succeed, no      *)
(* listener is served, and the error of the failed build names the         *)
(* missing file of that step.                                              *)
(***************************************************************************)
C17_TLSNeverDegrades ==
    \A k \in 1..Len(setters) : BadTLS(setters[k]) =>
        /\ buildPc # "ok"
        /\ serve = <<>>
        /\ mode = <<>>
        /\ buildPc = "failed" => buildErr = MissingFile(setters[k])

(***************************************************************************)
(* C17, amended.  Whenever the steps hold a WithTLSCert step with a        *)
(* missing file, at whatever position, the build does not succeed, it      *)
(* calls no step after that one, and no listener is served; when the       *)
(* build fails at that step (no earlier step failed) its error names the   *)
(* missing file, the certificate before the key.                           *)
(***************************************************************************)
C17_TLSNeverDegradesFirstError ==
    \A k \in 1..Len(setters) : BadTLS(setters[k]) =>
        /\ buildPc # "ok"
        /\ Len(applied) <= k
        /\ serve = <<>>
        /\ mode = <<>>
        /\ (buildPc = "failed" /\ Len(applied) = k) =>
              buildErr = MissingFile(setters[k])

\* a listener and a handler, then TLS with a certificate and no key: the
\* build failed naming the key, with the listener configured as plain
C17_Witness ==
    /\ buildPc = "failed"
    /\ Len(setters) = 3
    /\ setters[3] = <<"WithTLSCert", "cert.pem", "">>
    /\ Len(applied) = 3
    /\ buildErr = Errorf("invalid key file", "")
    /\ Len(cl) = 1
    /\ ch
    /\ startPc = "returned"

(***************************************************************************)
(* C18.  stop after start with two listeners that were both being served,  *)
(* where the Close of one of them fails: the error stop returns holds      *)
(* that failure, no listener is left open and the server is shut down.     *)
(***************************************************************************)
C18_CloseFailureReported ==
    (/\ stopPc = "returned"
     /\ Len(cl) = 2
     /\ Cardinality(closeFailed) = 1
     /\ \A k \in 1..Len(cl) :
           serve[k] = "reported" /\ report[k] # BadCertificate) =>
        /\ ErrorsIs(stopResult, CloseFailed)
        /\ open = {}
        /\ inShutdown

(***************************************************************************)
(* C19.  When the context passed to stop is done by the time stop          *)
(* returns, the error stop returns holds the context's error.              *)
(***************************************************************************)
C19_ContextErrorNotSwallowed ==
    (stopPc = "returned" /\ stopCtxDone) =>
        ErrorsIs(stopResult, DeadlineExceeded)

(***************************************************************************)
(* C20.  With a grace delay stop comes to the shutdown only when its wait  *)
(* has ended, by the timer or by the context, and the context ends it      *)
(* only when it is done; while stop waits, a context that is done lets it  *)
(* go on; without a grace delay stop never waits.                          *)
(***************************************************************************)
C20_GraceWaitRacesContext ==
    /\ (gWait > 0 /\ stopPc \in {"shutdown", "draining", "returned"}) =>
          woke \in {"timer", "ctx"}
    /\ (gWait > 0 /\ inShutdown) => woke \in {"timer", "ctx"}
    /\ woke = "ctx" => stopCtxDone
    /\ (stopPc = "grace" /\ stopCtxDone) => ENABLED stopCtxWake
    /\ gWait = 0 => (woke = "none" /\ stopPc # "grace")

\* the context ended the wait, and the server was shut down
C20_Witness ==
    /\ gWait > 0
    /\ woke = "ctx"
    /\ inShutdown
    /\ startPc = "loop"

(***************************************************************************)
(* C23.  When the first value that is not nil which the loop takes from    *)
(* the sink is Interrupt, or wraps it, the value the loop sends on ww.err  *)
(* is nil: the loop is at its send with nil or has sent nil, and when its  *)
(* send is the outcome Exec receives, Exec returns nil.                    *)
(***************************************************************************)
C23_InterruptBecomesNil ==
    (HasNonNil(taken) /\ ErrorsIs(FirstNonNil(taken), Interrupt)) =>
        /\ waitPc \in {"send", "done"}
        /\ waitPc = "send" => waitErr = Nil
        /\ waitPc = "done" =>
              \E n \in 1..Len(sendLog) : sendLog[n] = <<"wait", Nil>>
        /\ \A n \in 1..Len(sendLog) :
              sendLog[n][1] = "wait" => sendLog[n][2] = Nil
        /\ LoopWon => result = Nil

\* a handler wrote an error wrapping Interrupt while the workload was
\* running, and Exec returned nil
C23_Witness ==
    /\ execPc = "returned"
    /\ LoopWon
    /\ fnPc = "running"
    /\ written = <<WrappedInterrupt>>
    /\ result = Nil

(***************************************************************************)
(* C24.  No handler goroutine faults: none sends on the sink once the      *)
(* loop has closed it, so that the process never panics.                   *)
(***************************************************************************)
C24_HandlerNeverFaults ==
    ~panicked

(***************************************************************************)
(* C21.  An OnSystemd step called with a count n > 0 and a start s (3      *)
(* when SD_LISTEN_FDS_START does not parse), where the descriptors s to    *)
(* s+n-1 are all sockets, returns nil and adds n listeners, those of the   *)
(* descriptors s to s+n-1.  (Stated of the first OnSystemd step of a       *)
(* build, when it has just been called.)                                   *)
(***************************************************************************)
C21_InheritsEveryDescriptor ==
    \A k \in 1..Len(applied) :
        LET fn == setters[k]
            n == Atoi(fn[2])
            s == IF CanParse(fn[3]) THEN Atoi(fn[3]) ELSE 3
        IN  (/\ Len(applied) = k
             /\ fn[1] = "OnSystemd"
             /\ \A j \in 1..(k - 1) : setters[j][1] # "OnSystemd"
             /\ CanParse(fn[2])
             /\ n > 0
             /\ \A f \in s..(s + n - 1) : f \in SocketFds) =>
                /\ applied[k] = Nil
                /\ Len(SelectSeq(cl, IsFd)) = n
                /\ {cl[j] : j \in 1..Len(cl)} \cap {FdAddr(f) : f \in 3..8}
                      = {FdAddr(f) : f \in s..(s + n - 1)}

(***************************************************************************)
(* C22.  In a build that succeeded, a listener bound by OnTCP with no      *)
(* address is on the https port if the build enables TLS and on the http   *)
(* port if it does not, wherever the WithTLSCert step stands.              *)
(***************************************************************************)
C22_DefaultPortFollowsScheme ==
    buildPc = "ok" =>
        \A j \in 1..Len(cl) :
            /\ cl[j] = ":http" => ~UsesTLS
            /\ cl[j] = ":https" => UsesTLS

(***************************************************************************)
(* C26.  After a successful build every serve goroutine that start         *)
(* launches serves the same way: all of them TLS, with the certificate     *)
(* and key of the last WithTLSCert step, when the steps hold a WithTLSCert *)
(* step, wherever it stands, and all of them plain otherwise.              *)
(***************************************************************************)
C26_OneModePerServer ==
    LET tls == {k \in 1..Len(setters) : setters[k][1] = "WithTLSCert"} IN
    (buildPc = "ok" /\ startPc = "loop") =>
        /\ Len(mode) = Len(cl)
        /\ \A k \in 1..Len(cl) :
              mode[k] = IF tls # {} THEN "tls" ELSE "plain"
        /\ tls # {} =>
              \E k \in tls :
                 /\ \A j \in tls : j <= k
                 /\ setters[k] = <<"WithTLSCert", cert, key>>
        /\ tls = {} => (cert = "" /\ key = "")

\* two inherited listeners configured before TLS was enabled, both served
\* with TLS
C26_Witness ==
    /\ buildPc = "ok"
    /\ startPc = "loop"
    /\ setters[1][1] = "OnSystemd"
    /\ setters[2][1] = "WithTLSCert"
    /\ Len(cl) = 2
    /\ mode = <<"tls", "tls">>

=============================================================================
